---- MODULE Spec2Model ----
(***************************************************************************)
(* Model of the ont_data_tools summary statistics scripts:                 *)
(*   src/stats/calculate_summary_stats_v3_under_100kb.py  (length buckets) *)
(*   src/calculate_summary_stats_rna.py                   (quality buckets)*)
(*                                                                         *)
(* Python strings are sequences of one-character strings, so that split,   *)
(* join, substring search and int() are computed rather than assumed.      *)
(* A text line is modelled by the tokens line.strip().split() gives; a     *)
(* substring without whitespace occurs in a line exactly when it occurs in *)
(* one of its tokens.                                                      *)
(* Values rounded to two decimals are kept as integers counting            *)
(* hundredths.                                                             *)
(***************************************************************************)
EXTENDS Integers, Sequences, FiniteSets, TLC

VARIABLES
    variant,             \* "dna" | "rna" | "label": which script / function runs
    mode,                \* "dir" (one result per file) | "aggregated"
    actual_genome_size,  \* options.genome_size * 1e9
    pc,                  \* "idle" | "reading" | "done" | "label_in" | "label_out"
    input,               \* history: the files handed to the run so far
    header,              \* header of the file being read
    length_index,        \* header.index("sequence_length_template") + 1
    read_lengths,
    bases,
    flowcell_id,         \* process_single_file: None (<<>>) or <<id>>
    flowcell_ids,        \* process_aggregated_files: set of ids
    file_names,
    total_reads,         \* rna
    count_q,             \* rna: count_q5 .. count_q25
    results,             \* one entry per finished unit: the row written, or none
    file_field,          \* label transform: stats["File"] before the transform
    shortname,           \* options.shortname
    append_str,          \* options.append_str
    label_out            \* stats["File"] after the transform and the suffix

vars == <<variant, mode, actual_genome_size, pc, input, header, length_index,
          read_lengths, bases, flowcell_id, flowcell_ids, file_names,
          total_reads, count_q, results, file_field, shortname, append_str,
          label_out>>

(***************************************************************************)
(* Bounds of the model.                                                    *)
(***************************************************************************)
MaxFiles == 2
MaxLines == 4
MaxParts == 2

(***************************************************************************)
(* Strings.                                                                *)
(***************************************************************************)
S_filename == <<"f","i","l","e","n","a","m","e">>
S_filename_pod5 == <<"f","i","l","e","n","a","m","e","_","p","o","d","5">>
S_read_id == <<"r","e","a","d","_","i","d">>
S_sequence_length_template ==
    <<"s","e","q","u","e","n","c","e","_","l","e","n","g","t","h","_",
      "t","e","m","p","l","a","t","e">>
S_fast == <<"f","a","s","t">>

\* list.index(x) / str.find(c), 1-based; 0 when x does not occur
IndexOf(seq, x) ==
    IF \E i \in 1..Len(seq) : seq[i] = x
    THEN CHOOSE i \in 1..Len(seq) : seq[i] = x /\ \A j \in 1..(i-1) : seq[j] # x
    ELSE 0

\* sub in s
Contains(s, sub) ==
    \E i \in 1..(Len(s) - Len(sub) + 1) : SubSeq(s, i, i + Len(sub) - 1) = sub

\* s.split(sep), sep one character
RECURSIVE Split(_, _)
Split(s, sep) ==
    LET i == IndexOf(s, sep)
    IN  IF i = 0 THEN <<s>>
        ELSE <<SubSeq(s, 1, i - 1)>> \o Split(SubSeq(s, i + 1, Len(s)), sep)

\* sep.join(list)
RECURSIVE Join(_, _)
Join(list, sep) ==
    IF Len(list) = 0 THEN <<>>
    ELSE IF Len(list) = 1 THEN list[1]
    ELSE list[1] \o <<sep>> \o Join(Tail(list), sep)

Digits == <<"0","1","2","3","4","5","6","7","8","9">>
IsDigit(c) == IndexOf(Digits, c) # 0

\* int(s): ok = FALSE is ValueError. An optional sign, then digits, with
\* single underscores allowed between digits.
IntBody(s) == IF Len(s) > 0 /\ s[1] \in {"+", "-"} THEN Tail(s) ELSE s
IntOk(s) ==
    LET b == IntBody(s)
    IN  /\ Len(b) > 0
        /\ \A i \in 1..Len(b) :
              \/ IsDigit(b[i])
              \/ /\ b[i] = "_"
                 /\ 1 < i /\ i < Len(b)
                 /\ IsDigit(b[i-1]) /\ IsDigit(b[i+1])
RECURSIVE IntMagnitude(_, _)
IntMagnitude(b, acc) ==
    IF Len(b) = 0 THEN acc
    ELSE IF b[1] = "_" THEN IntMagnitude(Tail(b), acc)
    ELSE IntMagnitude(Tail(b), 10 * acc + (IndexOf(Digits, b[1]) - 1))
IntValue(s) ==
    IF s[1] = "-" THEN 0 - IntMagnitude(IntBody(s), 0) ELSE IntMagnitude(IntBody(s), 0)

(***************************************************************************)
(* transform_file_field and the suffix main appends.                       *)
(***************************************************************************)
\* parts[1] if len(parts) >= 2 else item
ShortenItem(item) ==
    LET parts == Split(item, "/")
    IN  IF Len(parts) >= 2 THEN parts[2] ELSE item

RECURSIVE ShortenEach(_)
ShortenEach(files_list) ==
    IF Len(files_list) = 0 THEN <<>>
    ELSE <<ShortenItem(files_list[1])>> \o ShortenEach(Tail(files_list))

transform_whole_label(field, shortname_option) ==
    IF shortname_option # "yes" THEN field ELSE ShortenItem(field)
transform_file_field(field, shortname_option) ==
    IF shortname_option # "yes" THEN field
    ELSE IF IndexOf(field, ",") # 0
         THEN Join(ShortenEach(Split(field, ",")), ",")
         ELSE ShortenItem(field)

\* main: stats["File"] = transform_file_field(...); if options.append_str: += "_" + it
main_label(field, shortname_option, suffix) ==
    LET t == transform_file_field(field, shortname_option)
    IN  IF Len(suffix) > 0 THEN t \o <<"_">> \o suffix ELSE t

(***************************************************************************)
(* Numbers.                                                                *)
(***************************************************************************)
Giga == 1000000000
Cut20 == 20000
Cut40 == 40000
Cut60 == 60000
Cut80 == 80000
Cut100 == 100000
WhaleSingle == 1000000
WhaleAggregated == 100000

\* round(num / den, 2) in hundredths, for num >= 0 and den > 0: the nearest
\* hundredth of the quotient.  At an exact tie Python's answer depends on the
\* binary representation of the double; the model takes the even neighbour.
\* Any choice at ties is a monotone, deterministic function of the quotient.
Round2(num, den) ==
    LET n == 100 * num
        q == n \div den
        r == n % den
    IN  IF 2 * r < den THEN q
        ELSE IF 2 * r > den THEN q + 1
        ELSE IF q % 2 = 0 THEN q ELSE q + 1

\* list.sort(reverse=True)
RECURSIVE InsertDesc(_, _)
InsertDesc(sorted, x) ==
    IF Len(sorted) = 0 THEN <<x>>
    ELSE IF x >= sorted[1] THEN <<x>> \o sorted
    ELSE <<sorted[1]>> \o InsertDesc(Tail(sorted), x)
RECURSIVE SortDesc(_)
SortDesc(seq) ==
    IF Len(seq) = 0 THEN <<>> ELSE InsertDesc(SortDesc(Tail(seq)), seq[1])

RECURSIVE SumSeq(_)
SumSeq(seq) == IF Len(seq) = 0 THEN 0 ELSE seq[1] + SumSeq(Tail(seq))

\* sum(i for i in read_lengths if i >= cut)
RECURSIVE SumBelow(_, _)
SumBelow(seq, cut) ==
    IF Len(seq) = 0 THEN 0
    ELSE (IF seq[1] <= cut THEN seq[1] ELSE 0) + SumBelow(Tail(seq), cut)
RECURSIVE SumAtLeast(_, _)
SumAtLeast(seq, cut) ==
    IF Len(seq) = 0 THEN 0
    ELSE (IF seq[1] >= cut THEN seq[1] ELSE 0) + SumAtLeast(Tail(seq), cut)

\* len([i for i in read_lengths if i >= cut])
CountAtLeast(seq, cut) == Cardinality({i \in 1..Len(seq) : seq[i] >= cut})

\* the N50 loop: cumulative += x; if cumulative >= total / 2.0: n50 = x; break
RECURSIVE N50Loop(_, _, _, _)
N50LoopStrict(sorted, i, cumulative, total) ==
    IF \E k \in 1..Len(sorted) : 2 * SumSeq(SubSeq(sorted, 1, k)) > total
    THEN sorted[CHOOSE k \in 1..Len(sorted) :
                   /\ 2 * SumSeq(SubSeq(sorted, 1, k)) > total
                   /\ \A j \in 1..(k-1) : 2 * SumSeq(SubSeq(sorted, 1, j)) <= total]
    ELSE 0
N50Loop(sorted, i, cumulative, total) ==
    IF i > Len(sorted) THEN 0
    ELSE LET c == cumulative + sorted[i]
         IN  IF 2 * c >= total THEN sorted[i]
             ELSE N50Loop(sorted, i + 1, c, total)

(***************************************************************************)
(* Ordering of strings, for sorted(flowcell_ids).                          *)
(***************************************************************************)
Alphabet == <<",", "/", "0","1","2","3","4","5","6","7","8","9",
              "A","B","C","D","E","F","N","_",
              "a","b","c","d","e","f","g","h","i","l","m","n","o","p","q",
              "r","s","t","u","w","x">>
Ord(c) == IndexOf(Alphabet, c)
RECURSIVE StrLess(_, _)
StrLess(a, b) ==
    IF Len(b) = 0 THEN FALSE
    ELSE IF Len(a) = 0 THEN TRUE
    ELSE IF a[1] = b[1] THEN StrLess(Tail(a), Tail(b))
    ELSE Ord(a[1]) < Ord(b[1])

RECURSIVE SortedStrings(_)
SortedStringsDescending(set) ==
    IF set = {} THEN <<>>
    ELSE LET hi == CHOOSE x \in set : \A y \in set \ {x} : StrLess(y, x)
         IN  <<hi>> \o SortedStrings(set \ {hi})
SortedStrings(set) ==
    IF set = {} THEN <<>>
    ELSE LET lo == CHOOSE x \in set : \A y \in set \ {x} : StrLess(x, y)
         IN  <<lo>> \o SortedStrings(set \ {lo})

(***************************************************************************)
(* Length-bucket script: rows.                                             *)
(***************************************************************************)
None == <<>>

\* 'filename' in line and 'read_id' in line
IsHeaderLine(line) ==
    /\ \E i \in 1..Len(line) : Contains(line[i], S_filename)
    /\ \E i \in 1..Len(line) : Contains(line[i], S_read_id)

extract_flowcell_id(hdr, parts) ==
    LET p5 == IndexOf(hdr, S_filename_pod5)
        idx == IF p5 # 0 THEN p5 ELSE IndexOf(hdr, S_filename)
    IN  IF idx = 0 THEN <<>>
        ELSE IF Len(parts) >= idx THEN Split(parts[idx], "_")[1] ELSE <<>>

\* One pass of the loop body of process_single_file over a line.
\* acc = [read_lengths, bases, flowcell_id]
single_line_count_bad_rows(acc, hdr, li, line) ==
    IF IsHeaderLine(line) THEN acc
    ELSE IF Len(line) < li THEN acc
    ELSE [read_lengths |-> Append(acc.read_lengths,
                                  IF IntOk(line[li]) THEN IntValue(line[li]) ELSE 0),
          bases |-> acc.bases + (IF IntOk(line[li]) THEN IntValue(line[li]) ELSE 0),
          flowcell_id |-> IF acc.flowcell_id = None
                          THEN <<extract_flowcell_id(hdr, line)>>
                          ELSE acc.flowcell_id]
single_line(acc, hdr, li, line) ==
    IF IsHeaderLine(line) THEN acc
    ELSE IF Len(line) < li THEN acc
    ELSE LET fc == IF acc.flowcell_id = None
                   THEN <<extract_flowcell_id(hdr, line)>>
                   ELSE acc.flowcell_id
         IN  IF ~IntOk(line[li]) THEN [acc EXCEPT !.flowcell_id = fc]
             ELSE [read_lengths |-> Append(acc.read_lengths, IntValue(line[li])),
                   bases |-> acc.bases + IntValue(line[li]),
                   flowcell_id |-> fc]

\* One pass of the loop body of process_aggregated_files over a line.
\* acc = [read_lengths, bases, flowcell_ids]
\* (a variant that collects the length and leaves the running total alone)
aggregated_line_forgets_bases(acc, hdr, li, line) ==
    IF IsHeaderLine(line) THEN acc
    ELSE IF Len(line) < li THEN acc
    ELSE LET fc == extract_flowcell_id(hdr, line)
             ids == IF Len(fc) > 0 THEN acc.flowcell_ids \cup {fc}
                    ELSE acc.flowcell_ids
         IN  IF ~IntOk(line[li]) THEN [acc EXCEPT !.flowcell_ids = ids]
             ELSE [read_lengths |-> Append(acc.read_lengths, IntValue(line[li])),
                   bases |-> acc.bases,
                   flowcell_ids |-> ids]
aggregated_line(acc, hdr, li, line) ==
    IF IsHeaderLine(line) THEN acc
    ELSE IF Len(line) < li THEN acc
    ELSE LET fc == extract_flowcell_id(hdr, line)
             ids == IF Len(fc) > 0 THEN acc.flowcell_ids \cup {fc}
                    ELSE acc.flowcell_ids
         IN  IF ~IntOk(line[li]) THEN [acc EXCEPT !.flowcell_ids = ids]
             ELSE [read_lengths |-> Append(acc.read_lengths, IntValue(line[li])),
                   bases |-> acc.bases + IntValue(line[li]),
                   flowcell_ids |-> ids]

(***************************************************************************)
(* Length-bucket script: the statistics of a unit.                         *)
(***************************************************************************)
\* the dictionary process_single_file returns (lines 111-144)
single_stats(inFile, lengths, total_bases, fc, size) ==
    LET sorted == SortDesc(lengths)
    IN  [File |-> inFile,
         flowcell_id |-> IF fc = None THEN <<>> ELSE fc[1],
         read_N50 |-> N50Loop(sorted, 1, 0, total_bases),
         Gb |-> Round2(total_bases, Giga),
         coverage |-> Round2(total_bases, size),
         lt20 |-> Round2(SumAtLeast(sorted, Cut20), size),
         lt40 |-> Round2(SumAtLeast(sorted, Cut40), size),
         lt60 |-> Round2(SumAtLeast(sorted, Cut60), size),
         lt80 |-> Round2(SumAtLeast(sorted, Cut80), size),
         lt100 |-> Round2(SumAtLeast(sorted, Cut100), size),
         whales |-> CountAtLeast(sorted, WhaleSingle)]

\* the dictionary process_aggregated_files returns (lines 193-226)
aggregated_stats(names, lengths, total_bases, ids, size) ==
    LET sorted == SortDesc(lengths)
    IN  [File |-> Join(names, ","),
         flowcell_id |-> Join(SortedStrings(ids), ","),
         read_N50 |-> N50Loop(sorted, 1, 0, total_bases),
         Gb |-> Round2(total_bases, Giga),
         coverage |-> Round2(total_bases, size),
         lt20 |-> Round2(SumAtLeast(sorted, Cut20), size),
         lt40 |-> Round2(SumAtLeast(sorted, Cut40), size),
         lt60 |-> Round2(SumAtLeast(sorted, Cut60), size),
         lt80 |-> Round2(SumAtLeast(sorted, Cut80), size),
         lt100 |-> Round2(SumAtLeast(sorted, Cut100), size),
         whales |-> CountAtLeast(sorted, WhaleAggregated)]

\* main: the row written for a unit's stats (<<>>: nothing is written)
written(stats, shortname_option, suffix) ==
    IF stats = None THEN None
    ELSE <<[stats[1] EXCEPT !.File = main_label(@, shortname_option, suffix)]>>

(***************************************************************************)
(* Length-bucket script: the two processing functions as a whole.          *)
(* A file is [name, opened, header, lines]: opened = FALSE is a file that  *)
(* open() raises on.                                                       *)
(***************************************************************************)
RECURSIVE single_lines(_, _, _, _)
single_lines(acc, hdr, li, lines) ==
    IF Len(lines) = 0 THEN acc
    ELSE single_lines(single_line(acc, hdr, li, lines[1]), hdr, li, Tail(lines))

process_single_file(file, size) ==
    IF ~file.opened THEN None
    ELSE LET li == IndexOf(file.header, S_sequence_length_template)
         IN  IF li = 0 THEN None
             ELSE LET acc == single_lines([read_lengths |-> <<>>, bases |-> 0,
                                           flowcell_id |-> None],
                                          file.header, li, file.lines)
                  IN  IF Len(acc.read_lengths) = 0 THEN None
                      ELSE <<single_stats(file.name, acc.read_lengths, acc.bases,
                                          acc.flowcell_id, size)>>

RECURSIVE aggregated_lines(_, _, _, _)
aggregated_lines(acc, hdr, li, lines) ==
    IF Len(lines) = 0 THEN acc
    ELSE aggregated_lines(aggregated_line(acc, hdr, li, lines[1]), hdr, li, Tail(lines))

\* acc = [read_lengths, bases, flowcell_ids, file_names]
RECURSIVE aggregated_files(_, _)
aggregated_files(acc, files) ==
    IF Len(files) = 0 THEN acc
    ELSE LET f == files[1]
             li == IndexOf(f.header, S_sequence_length_template)
             named == [acc EXCEPT !.file_names = Append(@, f.name)]
             rows == aggregated_lines([read_lengths |-> acc.read_lengths,
                                       bases |-> acc.bases,
                                       flowcell_ids |-> acc.flowcell_ids],
                                      f.header, li, f.lines)
         IN  IF ~f.opened THEN aggregated_files(acc, Tail(files))
             ELSE IF li = 0 THEN aggregated_files(named, Tail(files))
             ELSE aggregated_files([read_lengths |-> rows.read_lengths,
                                    bases |-> rows.bases,
                                    flowcell_ids |-> rows.flowcell_ids,
                                    file_names |-> named.file_names],
                                   Tail(files))

process_aggregated_files(files, size) ==
    LET acc == aggregated_files([read_lengths |-> <<>>, bases |-> 0,
                                 flowcell_ids |-> {}, file_names |-> <<>>], files)
    IN  IF Len(acc.read_lengths) = 0 THEN None
        ELSE <<aggregated_stats(acc.file_names, acc.read_lengths, acc.bases,
                                acc.flowcell_ids, size)>>

(***************************************************************************)
(* Inputs of the length-bucket script.                                     *)
(***************************************************************************)
T_r == <<"r">>
\* three layouts: the id column first; the id column (primary name) after the
\* length column; no length column
Headers ==
    { <<S_filename, S_read_id, S_sequence_length_template>>,
      <<S_read_id, S_sequence_length_template, S_filename_pod5>>,
      <<S_filename, S_read_id>> }
\* three reads with distinct ids, an embedded header line, a line too short
\* under the first layout (a read without id under the second), and a line
\* whose length is not an integer
Lines ==
    { << <<"F","A","_","1">>, T_r, <<"3","0","0","0","0">> >>,
      << <<"F","B","_","1">>, T_r, <<"7","0","0","0","0">> >>,
      << <<"F","C","_","1">>, T_r, <<"1","0","0","0","0","0">> >>,
      << S_filename, S_read_id, S_sequence_length_template >>,
      << T_r, <<"3","0","0","0">> >>,
      << <<"F","D","_","1">>, T_r, <<"N","A">> >> }
FileNames ==
    << <<"r","u","n","A","/","s","1","/","x">>, <<"p">>, <<"b","/","t">> >>
FileName(i) == FileNames[((i - 1) % Len(FileNames)) + 1]
\* --size 0.00007: small enough for reads of the model to show in two decimals
GenomeSizes == {70000}

RECURSIVE TotalLines(_)
TotalLines(files) ==
    IF Len(files) = 0 THEN 0 ELSE Len(files[1].lines) + TotalLines(Tail(files))

(***************************************************************************)
(* Length-bucket script, --dir mode: main's loop over process_single_file. *)
(***************************************************************************)
DnaFrame == <<variant, mode, actual_genome_size, total_reads, count_q,
              file_field, shortname, append_str, label_out>>

\* open() raises: return None, nothing is written
single_open_error ==
    /\ variant = "dna" /\ mode = "dir" /\ pc = "idle"
    /\ Len(input) < MaxFiles
    /\ input' = Append(input, [name |-> FileName(Len(input) + 1), opened |-> FALSE,
                               header |-> <<>>, lines |-> <<>>])
    /\ results' = Append(results, None)
    /\ UNCHANGED <<pc, header, length_index, read_lengths, bases, flowcell_id,
                   flowcell_ids, file_names>>
    /\ UNCHANGED DnaFrame

\* the header has no sequence_length_template: return None
single_missing_column ==
    /\ variant = "dna" /\ mode = "dir" /\ pc = "idle"
    /\ Len(input) < MaxFiles
    /\ \E h \in Headers :
          /\ IndexOf(h, S_sequence_length_template) = 0
          /\ input' = Append(input, [name |-> FileName(Len(input) + 1),
                                     opened |-> TRUE, header |-> h, lines |-> <<>>])
    /\ results' = Append(results, None)
    /\ UNCHANGED <<pc, header, length_index, read_lengths, bases, flowcell_id,
                   flowcell_ids, file_names>>
    /\ UNCHANGED DnaFrame

single_open ==
    /\ variant = "dna" /\ mode = "dir" /\ pc = "idle"
    /\ Len(input) < MaxFiles
    /\ \E h \in Headers :
          /\ IndexOf(h, S_sequence_length_template) # 0
          /\ input' = Append(input, [name |-> FileName(Len(input) + 1),
                                     opened |-> TRUE, header |-> h, lines |-> <<>>])
          /\ header' = h
          /\ length_index' = IndexOf(h, S_sequence_length_template)
    /\ read_lengths' = <<>>
    /\ bases' = 0
    /\ flowcell_id' = None
    /\ pc' = "reading"
    /\ UNCHANGED <<flowcell_ids, file_names, results>>
    /\ UNCHANGED DnaFrame

single_read_line ==
    /\ variant = "dna" /\ mode = "dir" /\ pc = "reading"
    /\ TotalLines(input) < MaxLines
    /\ \E line \in Lines :
          LET acc == single_line([read_lengths |-> read_lengths, bases |-> bases,
                                  flowcell_id |-> flowcell_id],
                                 header, length_index, line)
          IN  /\ input' = [input EXCEPT ![Len(input)].lines = Append(@, line)]
              /\ read_lengths' = acc.read_lengths
              /\ bases' = acc.bases
              /\ flowcell_id' = acc.flowcell_id
    /\ UNCHANGED <<pc, header, length_index, flowcell_ids, file_names, results>>
    /\ UNCHANGED DnaFrame

\* end of the file: f.close(), the statistics, and main's row
single_end_of_file ==
    /\ variant = "dna" /\ mode = "dir" /\ pc = "reading"
    /\ LET stats == IF Len(read_lengths) = 0 THEN None
                    ELSE <<single_stats(input[Len(input)].name, read_lengths, bases,
                                        flowcell_id, actual_genome_size)>>
       IN  results' = Append(results, written(stats, shortname, append_str))
    /\ pc' = "idle"
    /\ header' = <<>>
    /\ length_index' = 0
    /\ read_lengths' = <<>>
    /\ bases' = 0
    /\ flowcell_id' = None
    /\ UNCHANGED <<input, flowcell_ids, file_names>>
    /\ UNCHANGED DnaFrame

\* main's loop over the files ends
single_done ==
    /\ variant = "dna" /\ mode = "dir" /\ pc = "idle"
    /\ Len(input) >= 1
    /\ pc' = "done"
    /\ UNCHANGED <<variant, mode, actual_genome_size, input, header, length_index,
                   read_lengths, bases, flowcell_id, flowcell_ids, file_names,
                   total_reads, count_q, results, file_field, shortname,
                   append_str, label_out>>

(***************************************************************************)
(* Length-bucket script, aggregated mode: process_aggregated_files.        *)
(***************************************************************************)
aggregated_open_error ==
    /\ variant = "dna" /\ mode = "aggregated" /\ pc = "idle"
    /\ Len(input) < MaxFiles
    /\ input' = Append(input, [name |-> FileName(Len(input) + 1), opened |-> FALSE,
                               header |-> <<>>, lines |-> <<>>])
    /\ UNCHANGED <<pc, header, length_index, read_lengths, bases, flowcell_id,
                   flowcell_ids, file_names, results>>
    /\ UNCHANGED DnaFrame

aggregated_missing_column ==
    /\ variant = "dna" /\ mode = "aggregated" /\ pc = "idle"
    /\ Len(input) < MaxFiles
    /\ \E h \in Headers :
          /\ IndexOf(h, S_sequence_length_template) = 0
          /\ input' = Append(input, [name |-> FileName(Len(input) + 1),
                                     opened |-> TRUE, header |-> h, lines |-> <<>>])
    /\ file_names' = Append(file_names, FileName(Len(input) + 1))
    /\ UNCHANGED <<pc, header, length_index, read_lengths, bases, flowcell_id,
                   flowcell_ids, results>>
    /\ UNCHANGED DnaFrame

aggregated_open_resets ==
    /\ variant = "dna" /\ mode = "aggregated" /\ pc = "idle"
    /\ Len(input) < MaxFiles
    /\ \E h \in Headers :
          /\ IndexOf(h, S_sequence_length_template) # 0
          /\ input' = Append(input, [name |-> FileName(Len(input) + 1),
                                     opened |-> TRUE, header |-> h, lines |-> <<>>])
          /\ header' = h
          /\ length_index' = IndexOf(h, S_sequence_length_template)
    /\ file_names' = Append(file_names, FileName(Len(input) + 1))
    /\ pc' = "reading"
    /\ read_lengths' = <<>>
    /\ bases' = 0
    /\ UNCHANGED <<flowcell_id, flowcell_ids, results>>
    /\ UNCHANGED DnaFrame
aggregated_open ==
    /\ variant = "dna" /\ mode = "aggregated" /\ pc = "idle"
    /\ Len(input) < MaxFiles
    /\ \E h \in Headers :
          /\ IndexOf(h, S_sequence_length_template) # 0
          /\ input' = Append(input, [name |-> FileName(Len(input) + 1),
                                     opened |-> TRUE, header |-> h, lines |-> <<>>])
          /\ header' = h
          /\ length_index' = IndexOf(h, S_sequence_length_template)
    /\ file_names' = Append(file_names, FileName(Len(input) + 1))
    /\ pc' = "reading"
    /\ UNCHANGED <<read_lengths, bases, flowcell_id, flowcell_ids, results>>
    /\ UNCHANGED DnaFrame

aggregated_read_line ==
    /\ variant = "dna" /\ mode = "aggregated" /\ pc = "reading"
    /\ TotalLines(input) < MaxLines
    /\ \E line \in Lines :
          LET acc == aggregated_line([read_lengths |-> read_lengths, bases |-> bases,
                                      flowcell_ids |-> flowcell_ids],
                                     header, length_index, line)
          IN  /\ input' = [input EXCEPT ![Len(input)].lines = Append(@, line)]
              /\ read_lengths' = acc.read_lengths
              /\ bases' = acc.bases
              /\ flowcell_ids' = acc.flowcell_ids
    /\ UNCHANGED <<pc, header, length_index, flowcell_id, file_names, results>>
    /\ UNCHANGED DnaFrame

\* end of one file of the batch: f.close()
aggregated_end_of_file ==
    /\ variant = "dna" /\ mode = "aggregated" /\ pc = "reading"
    /\ pc' = "idle"
    /\ header' = <<>>
    /\ length_index' = 0
    /\ UNCHANGED <<input, read_lengths, bases, flowcell_id, flowcell_ids,
                   file_names, results>>
    /\ UNCHANGED DnaFrame

\* after the last file: the statistics of the batch, and main's row
aggregated_finish ==
    /\ variant = "dna" /\ mode = "aggregated" /\ pc = "idle"
    /\ Len(input) >= 1
    /\ LET stats == IF Len(read_lengths) = 0 THEN None
                    ELSE <<aggregated_stats(file_names, read_lengths, bases,
                                            flowcell_ids, actual_genome_size)>>
       IN  results' = Append(results, written(stats, shortname, append_str))
    /\ pc' = "done"
    /\ UNCHANGED <<input, header, length_index, read_lengths, bases, flowcell_id,
                   flowcell_ids, file_names>>
    /\ UNCHANGED DnaFrame

(***************************************************************************)
(* Quality-bucket script (rna).  A file is [name, opened, readable, rows]: *)
(* readable = FALSE is a file pd.read_csv raises on; rows are the rows of  *)
(* the DataFrame, [len, q] = sequence_length_template and                  *)
(* mean_qscore_template.  The variable bases holds total_bases.            *)
(***************************************************************************)
Mega == 1000000
Q5 == 5
Q10 == 10
Q15 == 15
Q20 == 20
Q25 == 25

\* len(df[df['mean_qscore_template'] >= cut])
CountQ(rows, cut) == Cardinality({i \in 1..Len(rows) : rows[i].q >= cut})
ZeroCounts == [q5 |-> 0, q10 |-> 0, q15 |-> 0, q20 |-> 0, q25 |-> 0]
FrameCounts(rows) ==
    [q5 |-> CountQ(rows, Q5), q10 |-> CountQ(rows, Q10), q15 |-> CountQ(rows, Q15),
     q20 |-> CountQ(rows, Q20), q25 |-> CountQ(rows, Q25)]
AddCounts(a, b) ==
    [q5 |-> a.q5 + b.q5, q10 |-> a.q10 + b.q10, q15 |-> a.q15 + b.q15,
     q20 |-> a.q20 + b.q20, q25 |-> a.q25 + b.q25]
\* list(df['sequence_length_template'])
FrameLengths(rows) == [i \in 1..Len(rows) |-> rows[i].len]

\* the dictionary both rna functions return; total_reads_M is total_reads / 1E6
\* and is not rounded: it is kept as the number of reads (millionths)
rna_stats(sample, lengths, total_bases, reads, counts) ==
    [Sample |-> sample,
     total_Gbp |-> Round2(total_bases, Giga),
     N50 |-> N50Loop(SortDesc(lengths), 1, 0, total_bases),
     total_reads_M |-> reads,
     q5_reads_M |-> Round2(counts.q5, Mega),
     q10_reads_M |-> Round2(counts.q10, Mega),
     q15_reads_M |-> Round2(counts.q15, Mega),
     q20_reads_M |-> Round2(counts.q20, Mega),
     q25_reads_M |-> Round2(counts.q25, Mega)]

process_rna_file(file) ==
    IF ~file.opened \/ ~file.readable THEN None
    ELSE <<rna_stats(file.name, FrameLengths(file.rows),
                     SumSeq(FrameLengths(file.rows)), Len(file.rows),
                     FrameCounts(file.rows))>>

\* one pass of the loop of process_aggregated_rna_files
\* acc = [read_lengths, total_bases, total_reads, count_q]
rna_aggregated_file(acc, file) ==
    IF ~file.opened \/ ~file.readable THEN acc
    ELSE [read_lengths |-> acc.read_lengths \o FrameLengths(file.rows),
          total_bases |-> acc.total_bases + SumSeq(FrameLengths(file.rows)),
          total_reads |-> acc.total_reads + Len(file.rows),
          count_q |-> AddCounts(acc.count_q, FrameCounts(file.rows))]

RECURSIVE rna_aggregated_files(_, _)
rna_aggregated_files(acc, files) ==
    IF Len(files) = 0 THEN acc
    ELSE rna_aggregated_files(rna_aggregated_file(acc, files[1]), Tail(files))

RECURSIVE NamesOf(_)
NamesOf(files) ==
    IF Len(files) = 0 THEN <<>> ELSE <<files[1].name>> \o NamesOf(Tail(files))

\* sample_field = ",".join(file_list): every file of the batch (no --name given)
process_aggregated_rna_files(files) ==
    LET acc == rna_aggregated_files([read_lengths |-> <<>>, total_bases |-> 0,
                                     total_reads |-> 0, count_q |-> ZeroCounts],
                                    files)
    IN  IF acc.total_reads = 0 THEN None
        ELSE <<rna_stats(Join(NamesOf(files), ","), acc.read_lengths,
                         acc.total_bases, acc.total_reads, acc.count_q)>>

\* main: the row written (res["Sample"] transformed as stats["File"] is)
written_rna(res, shortname_option, suffix) ==
    IF res = None THEN None
    ELSE <<[res[1] EXCEPT !.Sample = main_label(@, shortname_option, suffix)]>>

RnaRows ==
    { [len |-> 400, q |-> 3], [len |-> 1200, q |-> 7], [len |-> 700, q |-> 12],
      [len |-> 900, q |-> 17], [len |-> 2000, q |-> 25] }
RECURSIVE TotalRows(_)
TotalRows(files) ==
    IF Len(files) = 0 THEN 0 ELSE Len(files[1].rows) + TotalRows(Tail(files))
\* the files the next step may be handed
RnaFiles(files) ==
    LET n == FileName(Len(files) + 1)
    IN  { [name |-> n, opened |-> FALSE, readable |-> FALSE, rows |-> <<>>],
          [name |-> n, opened |-> TRUE, readable |-> FALSE, rows |-> <<>>] }
        \cup { [name |-> n, opened |-> TRUE, readable |-> TRUE, rows |-> r] :
               r \in UNION { [1..k -> RnaRows] : k \in 0..(MaxLines - TotalRows(files)) } }

RnaFrame == <<variant, mode, actual_genome_size, header, length_index, flowcell_id,
              flowcell_ids, file_names, file_field, shortname, append_str, label_out>>

\* --dir mode: process_rna_file on one more file, and main's row for it
rna_single_file ==
    /\ variant = "rna" /\ mode = "dir" /\ pc = "idle"
    /\ Len(input) < MaxFiles
    /\ \E file \in RnaFiles(input) :
          /\ input' = Append(input, file)
          /\ results' = Append(results,
                               written_rna(process_rna_file(file), shortname, append_str))
    /\ UNCHANGED <<pc, read_lengths, bases, total_reads, count_q>>
    /\ UNCHANGED RnaFrame

\* --dir mode: main's loop over the files ends
rna_single_done ==
    /\ variant = "rna" /\ mode = "dir" /\ pc = "idle"
    /\ Len(input) >= 1
    /\ pc' = "done"
    /\ UNCHANGED <<input, read_lengths, bases, total_reads, count_q, results>>
    /\ UNCHANGED RnaFrame

\* aggregated mode: one more file of the batch
rna_aggregated_next_file ==
    /\ variant = "rna" /\ mode = "aggregated" /\ pc = "idle"
    /\ Len(input) < MaxFiles
    /\ \E file \in RnaFiles(input) :
          LET acc == rna_aggregated_file([read_lengths |-> read_lengths,
                                          total_bases |-> bases,
                                          total_reads |-> total_reads,
                                          count_q |-> count_q], file)
          IN  /\ input' = Append(input, file)
              /\ read_lengths' = acc.read_lengths
              /\ bases' = acc.total_bases
              /\ total_reads' = acc.total_reads
              /\ count_q' = acc.count_q
    /\ UNCHANGED <<pc, results>>
    /\ UNCHANGED RnaFrame

\* aggregated mode: the batch is over
rna_aggregated_finish ==
    /\ variant = "rna" /\ mode = "aggregated" /\ pc = "idle"
    /\ Len(input) >= 1
    /\ LET res == IF total_reads = 0 THEN None
                  ELSE <<rna_stats(Join(NamesOf(input), ","), read_lengths, bases,
                                   total_reads, count_q)>>
       IN  results' = Append(results, written_rna(res, shortname, append_str))
    /\ pc' = "done"
    /\ UNCHANGED <<input, read_lengths, bases, total_reads, count_q>>
    /\ UNCHANGED RnaFrame

(***************************************************************************)
(* The label transform on its own: main's lines on stats["File"].          *)
(***************************************************************************)
S_example == <<"r","u","n","A","/","s","a","m","p","l","e","1","/",
               "r","a","w",".","t","x","t">>
S_sample1 == <<"s","a","m","p","l","e","1">>
Components ==
    { S_example, <<"p">>, <<"/","a","b","/","x">>, <<"a","/">>, <<"c","/","d">> }
Labels ==
    { Join(parts, ",") : parts \in UNION { [1..k -> Components] : k \in 1..MaxParts } }

apply_label ==
    /\ variant = "label" /\ pc = "label_in"
    /\ label_out' = main_label(file_field, shortname, append_str)
    /\ pc' = "label_out"
    /\ UNCHANGED <<variant, mode, actual_genome_size, input, header, length_index,
                   read_lengths, bases, flowcell_id, flowcell_ids, file_names,
                   total_reads, count_q, results, file_field, shortname, append_str>>

(***************************************************************************)
(* Specifications.                                                         *)
(***************************************************************************)
InitRun ==
    /\ pc = "idle"
    /\ mode \in {"dir", "aggregated"}
    /\ input = <<>>
    /\ header = <<>>
    /\ length_index = 0
    /\ read_lengths = <<>>
    /\ bases = 0
    /\ flowcell_id = None
    /\ flowcell_ids = {}
    /\ file_names = <<>>
    /\ total_reads = 0
    /\ count_q = ZeroCounts
    /\ results = <<>>
    /\ file_field = <<>>
    /\ shortname = "yes"
    /\ append_str = S_fast
    /\ label_out = <<>>

InitDna == variant = "dna" /\ actual_genome_size \in GenomeSizes /\ InitRun
InitRna == variant = "rna" /\ actual_genome_size = 0 /\ InitRun
InitLabel ==
    /\ variant = "label"
    /\ pc = "label_in"
    /\ mode = "label"
    /\ actual_genome_size = 0
    /\ input = <<>>
    /\ header = <<>>
    /\ length_index = 0
    /\ read_lengths = <<>>
    /\ bases = 0
    /\ flowcell_id = None
    /\ flowcell_ids = {}
    /\ file_names = <<>>
    /\ total_reads = 0
    /\ count_q = ZeroCounts
    /\ results = <<>>
    /\ file_field \in Labels
    /\ shortname \in {"yes", "no"}
    /\ append_str \in {S_fast, <<>>}
    /\ label_out = <<>>

NextDna ==
    \/ single_open_error
    \/ single_missing_column
    \/ single_open
    \/ single_read_line
    \/ single_end_of_file
    \/ single_done
    \/ aggregated_open_error
    \/ aggregated_missing_column
    \/ aggregated_open
    \/ aggregated_read_line
    \/ aggregated_end_of_file
    \/ aggregated_finish

NextRna ==
    \/ rna_single_file
    \/ rna_single_done
    \/ rna_aggregated_next_file
    \/ rna_aggregated_finish

Init == InitDna \/ InitRna
Next == NextDna \/ NextRna

Spec == Init /\ [][Next]_vars
SpecDna == InitDna /\ [][NextDna]_vars
SpecLabel == InitLabel /\ [][apply_label]_vars

(***************************************************************************)
(* Properties.                                                             *)
(***************************************************************************)

\* The second '/'-delimited segment of a component when it has one, else the
\* component itself, read off the positions of '/' in it.
SecondSegmentOrSelf(c) ==
    LET i == IndexOf(c, "/")
        rest == SubSeq(c, i + 1, Len(c))
        j == IndexOf(rest, "/")
    IN  IF i = 0 THEN c
        ELSE IF j = 0 THEN rest ELSE SubSeq(rest, 1, j - 1)

C9_Expected ==
    LET comps == Split(file_field, ",")
        short == Join([k \in 1..Len(comps) |-> SecondSegmentOrSelf(comps[k])], ",")
        core == IF shortname = "yes" THEN short ELSE file_field
    IN  IF Len(append_str) > 0 THEN core \o <<"_">> \o append_str ELSE core

\* C9: with shortening enabled the label transform replaces each
\* comma-separated component, independently, by its second '/'-delimited
\* segment when that segment exists and leaves it unchanged otherwise; with
\* shortening disabled the label is unchanged; then '_' + suffix is appended
\* exactly when the suffix is non-empty ("runA/sample1/raw.txt" gives
\* "sample1", and "sample1_fast" with suffix "fast").
C9_LabelTransform ==
    pc = "label_out" =>
        /\ label_out = C9_Expected
        /\ (file_field = S_example /\ shortname = "yes" /\ append_str = <<>>)
              => label_out = S_sample1
        /\ (file_field = S_example /\ shortname = "yes" /\ append_str = S_fast)
              => label_out = S_sample1 \o <<"_">> \o S_fast
        /\ (file_field = S_example /\ shortname = "no" /\ append_str = <<>>)
              => label_out = S_example

\* a merged label of two components, one with and one without a second
\* segment, shortened and suffixed
C9_Witness ==
    /\ pc = "label_out"
    /\ file_field = S_example \o <<",">> \o <<"p">>
    /\ shortname = "yes"
    /\ append_str = S_fast
    /\ label_out = S_sample1 \o <<",", "p", "_">> \o S_fast

(***************************************************************************)
(* Helpers of the properties below.                                        *)
(***************************************************************************)
\* the numeric outputs of a written row of either script (<<>> when none)
DnaNumbers(row) ==
    IF row = None THEN None
    ELSE <<row[1].read_N50, row[1].Gb, row[1].coverage, row[1].lt20, row[1].lt40,
           row[1].lt60, row[1].lt80, row[1].lt100>>
RnaNumbers(row) ==
    IF row = None THEN None
    ELSE <<row[1].total_Gbp, row[1].N50, row[1].total_reads_M, row[1].q5_reads_M,
           row[1].q10_reads_M, row[1].q15_reads_M, row[1].q20_reads_M,
           row[1].q25_reads_M>>

HasLengthColumn(f) == f.opened /\ IndexOf(f.header, S_sequence_length_template) # 0
RECURSIVE AllLines(_)
AllLines(files) ==
    IF Len(files) = 0 THEN <<>> ELSE files[1].lines \o AllLines(Tail(files))
RECURSIVE AllRows(_)
AllRows(files) ==
    IF Len(files) = 0 THEN <<>> ELSE files[1].rows \o AllRows(Tail(files))
Reverse(seq) == [i \in 1..Len(seq) |-> seq[Len(seq) + 1 - i]]
EmptyAcc == [read_lengths |-> <<>>, bases |-> 0, flowcell_ids |-> {},
             file_names |-> <<>>]

\* the rows of the whole batch as one stream under header h, files in the
\* order given
OneStream(files, h) ==
    <<[name |-> <<"a","l","l">>, opened |-> TRUE, header |-> h,
       lines |-> AllLines(files)]>>
OneFrame(files) ==
    <<[name |-> <<"a","l","l">>, opened |-> TRUE, readable |-> TRUE,
       rows |-> AllRows(files)]>>

\* C1: for any split of a set of rows over the files of a batch, in any file
\* order, aggregated processing gives the numeric outputs (bases, Gb, read
\* count, N50, coverage, every bucket value) of the rows processed as one
\* single stream.
C1_AggregationEqualsSingleStream ==
    /\ (variant = "dna" /\ mode = "aggregated" /\ pc = "done"
        /\ (\E k \in 1..Len(input) : HasLengthColumn(input[k]))
        /\ (\A i, j \in 1..Len(input) :
              HasLengthColumn(input[i]) /\ HasLengthColumn(input[j])
                 => input[i].header = input[j].header))
       => LET h == input[CHOOSE i \in 1..Len(input) : HasLengthColumn(input[i])].header
              fwd == OneStream(input, h)
              bwd == OneStream(Reverse(input), h)
              one == aggregated_files(EmptyAcc, fwd)
              row == results[1]
          IN  /\ bases = one.bases
              /\ Len(read_lengths) = Len(one.read_lengths)
              /\ DnaNumbers(row)
                    = DnaNumbers(process_aggregated_files(fwd, actual_genome_size))
              /\ DnaNumbers(row)
                    = DnaNumbers(process_aggregated_files(bwd, actual_genome_size))
              /\ (row # None) =>
                    row[1].whales
                      = process_aggregated_files(fwd, actual_genome_size)[1].whales
    /\ (variant = "rna" /\ mode = "aggregated" /\ pc = "done")
       => /\ bases = SumSeq(FrameLengths(AllRows(input)))
          /\ total_reads = Len(AllRows(input))
          /\ RnaNumbers(results[1])
                = RnaNumbers(process_aggregated_rna_files(OneFrame(input)))
          /\ RnaNumbers(results[1])
                = RnaNumbers(process_aggregated_rna_files(OneFrame(Reverse(input))))

\* a batch of two files with the same header, rows in both, three reads or
\* more accepted, and a result written
C1_Witness ==
    /\ variant = "dna" /\ mode = "aggregated" /\ pc = "done"
    /\ Len(input) = 2
    /\ HasLengthColumn(input[1])
    /\ input[1].header = input[2].header
    /\ Len(input[1].lines) >= 1 /\ Len(input[2].lines) >= 1
    /\ Len(read_lengths) >= 3
    /\ results[1] # None

\* the lengths process_single_file accepts from a file with a length column
AcceptedSingle(f) ==
    single_lines([read_lengths |-> <<>>, bases |-> 0, flowcell_id |-> None],
                 f.header, IndexOf(f.header, S_sequence_length_template),
                 f.lines).read_lengths

\* the i-th largest element of L, by counting
IthLargest(L, i) ==
    CHOOSE v \in {L[j] : j \in 1..Len(L)} :
        /\ Cardinality({j \in 1..Len(L) : L[j] > v}) < i
        /\ i <= Cardinality({j \in 1..Len(L) : L[j] >= v})
Descending(L) == [i \in 1..Len(L) |-> IthLargest(L, i)]

\* v is the element at the first position of the descending order at which
\* the running sum reaches or exceeds half the total
C2_IsN50(L, v) ==
    LET d == Descending(L)
        total == SumSeq(L)
        Reached(k) == 2 * SumSeq(SubSeq(d, 1, k)) >= total
    IN  /\ \E k \in 1..Len(d) :
              /\ Reached(k)
              /\ \A j \in 1..(k - 1) : ~Reached(j)
              /\ v = d[k]
        /\ \E j \in 1..Len(L) : v = L[j]

\* C2: for every non-empty multiset of accepted non-negative lengths the
\* reported N50 is the length at the first position, in descending order, at
\* which the running sum reaches or exceeds totalBases / 2; it is an element of
\* the accepted lengths ([100,100,100,100] gives 100, [1000,500,300,200] gives
\* 1000), never the placeholder 0 unless 0 is that element.
C2_N50 ==
    /\ (variant = "dna" /\ mode = "dir")
       => \A k \in 1..Len(results) :
             results[k] # None
                => C2_IsN50(AcceptedSingle(input[k]), results[k][1].read_N50)
    /\ (variant = "dna" /\ mode = "aggregated" /\ pc = "done" /\ results[1] # None)
       => C2_IsN50(read_lengths, results[1][1].read_N50)
    /\ (variant = "rna" /\ mode = "dir")
       => \A k \in 1..Len(results) :
             (results[k] # None /\ Len(input[k].rows) > 0)
                => C2_IsN50(FrameLengths(input[k].rows), results[k][1].N50)
    /\ (variant = "rna" /\ mode = "aggregated" /\ pc = "done" /\ results[1] # None)
       => C2_IsN50(read_lengths, results[1][1].N50)
    /\ N50Loop(SortDesc(<<100, 100, 100, 100>>), 1, 0, 400) = 100
    /\ N50Loop(SortDesc(<<300, 1000, 200, 500>>), 1, 0, 2000) = 1000

\* a file whose N50 is not its longest read: the running sum reaches half the
\* total only at the second position
C2_Witness ==
    /\ variant = "dna" /\ mode = "dir"
    /\ Len(results) >= 1
    /\ results[1] # None
    /\ AcceptedSingle(input[1]) = <<70000, 100000, 70000>>
    /\ results[1][1].read_N50 = 70000

\* the first '_'-delimited token of a field, read off the position of '_'
FirstToken(t) == IF IndexOf(t, "_") = 0 THEN t ELSE SubSeq(t, 1, IndexOf(t, "_") - 1)
IdColumn(h) ==
    IF IndexOf(h, S_filename_pod5) # 0 THEN IndexOf(h, S_filename_pod5)
    ELSE IndexOf(h, S_filename)
LengthColumn(h) == IndexOf(h, S_sequence_length_template)
\* a line holding the header markers
EmbeddedHeader(line) ==
    /\ \E i \in 1..Len(line) : line[i] \in {S_filename, S_filename_pod5}
    /\ \E i \in 1..Len(line) : line[i] = S_read_id
AllDigits(t) == Len(t) > 0 /\ \A i \in 1..Len(t) : IsDigit(t[i])
\* a line that is a record: not a header line, long enough, integer length
IsRecord(h, line) ==
    /\ ~EmbeddedHeader(line)
    /\ Len(line) >= LengthColumn(h)
    /\ AllDigits(line[LengthColumn(h)])
\* the identifiers of the rows of a file: of every line that is not a header
\* line and reaches the length column and the identifier column
RowIds(f) ==
    IF ~HasLengthColumn(f) \/ IdColumn(f.header) = 0 THEN {}
    ELSE { FirstToken(f.lines[i][IdColumn(f.header)]) :
           i \in { j \in 1..Len(f.lines) :
                      /\ ~EmbeddedHeader(f.lines[j])
                      /\ Len(f.lines[j]) >= LengthColumn(f.header)
                      /\ Len(f.lines[j]) >= IdColumn(f.header) } } \ {<<>>}
SetOf(seq) == {seq[i] : i \in 1..Len(seq)}
\* the identifiers a written row shows
ShownIds(row) ==
    IF Len(row[1].flowcell_id) = 0 THEN {} ELSE SetOf(Split(row[1].flowcell_id, ","))

\* C3: in per-file processing the identifier output of a file is the full set
\* of distinct identifiers extracted from the file's rows: an identifier that
\* first appears on a later row is included too.  (Stated for the files all
\* of whose lines are records, where every row has an identifier when the
\* header names the column.)
C3_PerFileIdentifierSet ==
    (variant = "dna" /\ mode = "dir")
       => \A k \in 1..Len(results) :
             (/\ results[k] # None
              /\ \A i \in 1..Len(input[k].lines) :
                    IsRecord(input[k].header, input[k].lines[i]))
                => ShownIds(results[k]) = RowIds(input[k])

\* C4: in aggregated processing a file whose header lacks the length column
\* contributes nothing: no lengths, no bases, no identifiers and no entry in
\* the comma-joined source-name label; the other files are still processed.
C4_MissingColumnContributesNothing ==
    (variant = "dna" /\ mode = "aggregated" /\ pc = "done")
       => LET kept == SelectSeq(input, HasLengthColumn)
              rest == process_aggregated_files(kept, actual_genome_size)
          IN  results[1] = written(rest, shortname, append_str)

\* C5: one file processed through the aggregated path (a batch of that file
\* alone) and through the per-file path gives the same N50, Gb, coverage,
\* length buckets and very-long-read count ('whales').
C5_SingleFileBothPaths ==
    (variant = "dna" /\ mode = "dir")
       => \A k \in 1..Len(results) :
             LET agg == process_aggregated_files(<<input[k]>>, actual_genome_size)
             IN  /\ DnaNumbers(results[k]) = DnaNumbers(agg)
                 /\ (results[k] # None) => results[k][1].whales = agg[1].whales

\* C6: in both scripts and both modes a unit (a file in per-file mode, the
\* batch in aggregated mode) with zero accepted records produces no result
\* record.
C6_NoRecordsNoResult ==
    /\ (variant = "dna" /\ mode = "dir")
       => \A k \in 1..Len(results) :
             (~HasLengthColumn(input[k])
              \/ \A i \in 1..Len(input[k].lines) :
                    ~IsRecord(input[k].header, input[k].lines[i]))
                => results[k] = None
    /\ (variant = "dna" /\ mode = "aggregated" /\ pc = "done")
       => (Len(read_lengths) = 0 => results[1] = None)
    /\ (variant = "rna" /\ mode = "dir")
       => \A k \in 1..Len(results) :
             Len(input[k].rows) = 0 => results[k] = None
    /\ (variant = "rna" /\ mode = "aggregated" /\ pc = "done")
       => (Len(AllRows(input)) = 0 => results[1] = None)

RECURSIVE UnionOfRowIds(_)
UnionOfRowIds(files) ==
    IF Len(files) = 0 THEN {} ELSE RowIds(files[1]) \cup UnionOfRowIds(Tail(files))

\* C7: two files sharing one identifier and each having one further unique
\* identifier give exactly 3 distinct identifiers; the aggregated identifier
\* output is the sorted, duplicate-free union of the identifiers of all files,
\* and is the same for every file processing order.
C7_IdentifierUnion ==
    (variant = "dna" /\ mode = "aggregated" /\ pc = "done" /\ results[1] # None)
       => LET shown == IF Len(results[1][1].flowcell_id) = 0 THEN <<>>
                       ELSE Split(results[1][1].flowcell_id, ",")
              other == process_aggregated_files(Reverse(input), actual_genome_size)
          IN  /\ \A i \in 1..(Len(shown) - 1) : StrLess(shown[i], shown[i + 1])
              /\ SetOf(shown) = UnionOfRowIds(input)
              /\ flowcell_ids = UnionOfRowIds(input)
              /\ other[1].flowcell_id = results[1][1].flowcell_id
              /\ (/\ Len(input) = 2
                  /\ Cardinality(RowIds(input[1])) = 2
                  /\ Cardinality(RowIds(input[2])) = 2
                  /\ Cardinality(RowIds(input[1]) \cap RowIds(input[2])) = 1)
                 => Len(shown) = 3

\* the second file read first would list the identifiers out of order: FC and
\* FA in the first file, FA and FB in the second, shown as FA,FB,FC
C7_Witness ==
    /\ variant = "dna" /\ mode = "aggregated" /\ pc = "done"
    /\ Len(input) = 2
    /\ RowIds(input[1]) = { <<"F","C">>, <<"F","A">> }
    /\ RowIds(input[2]) = { <<"F","A">>, <<"F","B">> }
    /\ results[1] # None
    /\ results[1][1].flowcell_id = <<"F","A",",","F","B",",","F","C">>

\* a line the row parser drops: an embedded header, too few fields, or a
\* length that is not an integer
Dropped(h, line) == ~IsRecord(h, line)
CleanLines(h, lines) == SelectSeq(lines, LAMBDA line : IsRecord(h, line))
Clean(f) == [f EXCEPT !.lines = CleanLines(f.header, f.lines)]
CleanAll(files) == [i \in 1..Len(files) |-> Clean(files[i])]
\* the lengths written on the records of a file, in order
RecordLengths(f) ==
    LET kept == CleanLines(f.header, f.lines)
    IN  [i \in 1..Len(kept) |-> IntValue(kept[i][LengthColumn(f.header)])]
RECURSIVE AllRecordLengths(_)
AllRecordLengths(files) ==
    IF Len(files) = 0 THEN <<>>
    ELSE (IF HasLengthColumn(files[1]) THEN RecordLengths(files[1]) ELSE <<>>)
         \o AllRecordLengths(Tail(files))

\* C8: a stream with an embedded duplicate header line and a short or
\* malformed row among valid rows gives the totals (read count, total bases,
\* N50, bucket values) of the stream without those lines; every other row is
\* accepted exactly once.
C8_RowTolerance ==
    /\ (variant = "dna" /\ mode = "dir")
       => \A k \in 1..Len(results) :
             HasLengthColumn(input[k])
                => LET row == process_single_file(Clean(input[k]), actual_genome_size)
                   IN  /\ AcceptedSingle(input[k]) = RecordLengths(input[k])
                       /\ DnaNumbers(results[k]) = DnaNumbers(row)
                       /\ (results[k] # None) => results[k][1].whales = row[1].whales
    /\ (variant = "dna" /\ mode = "aggregated" /\ pc = "done")
       => LET row == process_aggregated_files(CleanAll(input), actual_genome_size)
          IN  /\ read_lengths = AllRecordLengths(input)
              /\ bases = SumSeq(AllRecordLengths(input))
              /\ DnaNumbers(results[1]) = DnaNumbers(row)
              /\ (results[1] # None) => results[1][1].whales = row[1].whales

\* a file with one embedded header line, one dropped row and two records
C8_Witness ==
    /\ variant = "dna" /\ mode = "dir"
    /\ Len(results) >= 1
    /\ results[1] # None
    /\ LET f == input[1]
           n == {i \in 1..Len(f.lines) : EmbeddedHeader(f.lines[i])}
           m == {i \in 1..Len(f.lines) :
                    ~EmbeddedHeader(f.lines[i]) /\ Dropped(f.header, f.lines[i])}
       IN  /\ Cardinality(n) = 1
           /\ Cardinality(m) = 1
           /\ Len(f.lines) = 4
           /\ ~EmbeddedHeader(f.lines[1])
           /\ IsRecord(f.header, f.lines[4])

\* C10: bucket values do not increase with the cutoff: coverage >= 20kb+ >=
\* 40kb+ >= 60kb+ >= 80kb+ >= 100kb+ for the length-bucket sums, and total
\* reads >= q5 >= q10 >= q15 >= q20 >= q25 for the quality-bucket counts.
C10_BucketMonotone ==
    /\ variant = "dna"
       => \A k \in 1..Len(results) :
             results[k] # None
                => LET r == results[k][1]
                   IN  /\ r.coverage >= r.lt20
                       /\ r.lt20 >= r.lt40
                       /\ r.lt40 >= r.lt60
                       /\ r.lt60 >= r.lt80
                       /\ r.lt80 >= r.lt100
    /\ variant = "rna"
       => /\ total_reads >= count_q.q5
          /\ count_q.q5 >= count_q.q10
          /\ count_q.q10 >= count_q.q15
          /\ count_q.q15 >= count_q.q20
          /\ count_q.q20 >= count_q.q25
          /\ \A k \in 1..Len(results) :
                results[k] # None
                   => LET r == results[k][1]
                      IN  /\ mode = "dir" =>
                                r.total_reads_M >= CountQ(input[k].rows, Q5)
                          /\ r.q5_reads_M >= r.q10_reads_M
                          /\ r.q10_reads_M >= r.q15_reads_M
                          /\ r.q15_reads_M >= r.q20_reads_M
                          /\ r.q20_reads_M >= r.q25_reads_M

\* a batch whose buckets differ: coverage > 20kb+ > 40kb+ and 60kb+ > 80kb+
C10_Witness ==
    /\ variant = "dna" /\ mode = "aggregated" /\ pc = "done"
    /\ results[1] # None
    /\ results[1][1].coverage > results[1][1].lt20
    /\ results[1][1].lt20 > results[1][1].lt40
    /\ results[1][1].lt60 > results[1][1].lt80

\* the line a step has read, when the step is the reading of a line
LastLine(files) == files[Len(files)].lines[Len(files[Len(files)].lines)]
ReadsALine == TotalLines(input') = TotalLines(input) + 1
\* the number of records among the rows processed so far
RecordsSoFar(files) ==
    IF mode = "dir" THEN Len(RecordLengths(files[Len(files)]))
    ELSE Len(AllRecordLengths(files))

\* C11: after every processed row, in per-file and in aggregated
\* accumulation, the running base total is the sum of the collected lengths
\* and the number of accepted records is the number of collected lengths; a
\* skipped row (embedded header, too few fields, non-integer length) changes
\* neither, and an accepted row adds its length to both.
C11_RunningTotals ==
    [][ (variant = "dna" /\ ReadsALine)
           => LET line == LastLine(input')
              IN  /\ bases' = SumSeq(read_lengths')
                  /\ Len(read_lengths') = RecordsSoFar(input')
                  /\ Dropped(header, line)
                        => /\ read_lengths' = read_lengths
                           /\ bases' = bases
                  /\ IsRecord(header, line)
                        => /\ read_lengths' =
                                 Append(read_lengths,
                                        IntValue(line[LengthColumn(header)]))
                           /\ bases' = bases + IntValue(line[LengthColumn(header)])
      ]_vars

\* a second file of a batch whose rows so far are a record, an embedded header
\* line and a row with a non-integer length, after a first file with a record
C11_Witness ==
    /\ variant = "dna" /\ mode = "aggregated" /\ pc = "reading"
    /\ Len(input) = 2
    /\ Len(RecordLengths(input[1])) = 1
    /\ Len(input[2].lines) = 3
    /\ IsRecord(header, input[2].lines[1])
    /\ EmbeddedHeader(input[2].lines[2])
    /\ ~EmbeddedHeader(input[2].lines[3])
    /\ Len(input[2].lines[3]) >= length_index
    /\ Dropped(header, input[2].lines[3])
    /\ Len(read_lengths) = 2
    /\ bases = SumSeq(read_lengths)
    /\ bases > 0

\* the identifiers of the records of a file: of the lines that were accepted
RecordIds(f) ==
    IF ~HasLengthColumn(f) \/ IdColumn(f.header) = 0 THEN {}
    ELSE { FirstToken(f.lines[i][IdColumn(f.header)]) :
           i \in { j \in 1..Len(f.lines) :
                      /\ IsRecord(f.header, f.lines[j])
                      /\ Len(f.lines[j]) >= IdColumn(f.header) } } \ {<<>>}
UnionOfRecordIds(files) == UNION { RecordIds(files[i]) : i \in 1..Len(files) }
\* a line that reaches the length column and whose length is not an integer
BadLength(h, line) ==
    /\ ~EmbeddedHeader(line)
    /\ Len(line) >= LengthColumn(h)
    /\ ~AllDigits(line[LengthColumn(h)])

\* C12: a row dropped because its length field is not an integer leaves the
\* whole accumulator unchanged, the identifier state included, so that the
\* reported flowcell identifiers come only from rows accepted as records, in
\* process_single_file and in process_aggregated_files.
C12_DroppedRowLeavesIdentifiers ==
    [][ variant = "dna"
           => /\ (ReadsALine /\ BadLength(header, LastLine(input')))
                    => /\ read_lengths' = read_lengths
                       /\ bases' = bases
                       /\ flowcell_id' = flowcell_id
                       /\ flowcell_ids' = flowcell_ids
              /\ \A k \in 1..Len(results') :
                    results'[k] # None
                       => ShownIds(results'[k]) \subseteq
                             (IF mode = "dir" THEN RecordIds(input'[k])
                              ELSE UnionOfRecordIds(input'))
      ]_vars

====
